---- MODULE Spec2Model ----
(***************************************************************************)
(* State-machine model of nexrad_viewer/server.py: the raw scan store      *)
(* (get_radar_scans, cleanup_old_cache), the rendered tile cache           *)
(* (get_image_cache_key, get_cached_image, save_cached_image) and the      *)
(* image, animation and forecast pipelines built on them.                  *)
(*                                                                         *)
(* A scan file name is a tuple <<date, time>> ("KOKX<date>_<time>_V06") or *)
(* <<date, time, "MDM">> (the same name with the "_MDM" marker); Python    *)
(* compares the names as strings, the model compares the tuples            *)
(* lexicographically.  All raw files live in one cache directory, so a     *)
(* path is modelled by its base name.                                      *)
(***************************************************************************)
EXTENDS Integers, Sequences, FiniteSets, TLC

(***************************************************************************)
(* Bounds of the model.                                                    *)
(***************************************************************************)
\* scan times within one UTC day are 1..MaxTime
MaxTime == 2
\* largest count / frames parameter of a request
MaxCount == 3
\* at most this many raw files are in the cache directory initially
MaxCached == 2
\* the regular grid has GridSize x GridSize nodes (grid_size, 500 in the program)
GridSize == 2
\* a sweep has one group of GatesPerNode gates of equal value around each grid node
GatesPerNode == 50
\* largest lead_times parameter of a forecast request
MaxLead == 2
\* the most calls in a history of cache calls
MaxOps == 3

\* smallest count parameter (the endpoints do not validate it)
MinCount == 0 - 1

\* smallest lead_times parameter (the endpoint does not validate it)
MinLead == 0 - 1

(***************************************************************************)
(* Program constants.                                                      *)
(***************************************************************************)
\* for days_ago in range(2)
SearchDays == 2
\* files = get_radar_scans(station, count=6)
ForecastScanCount == 6
\* noise_threshold = 5 (reflectivity)
NoiseFloorRefl == 5
\* noise_threshold = 1 (velocity)
NoiseFloorVel == 1
\* if np.sum(valid_mask) < 100
MinValidPoints == 100
\* np.sum(radar_stack > 10)
SignificantValue == 10
\* if significant_pixels < 0.01, as a percentage
MinCoveragePct == 1
\* np.abs(mean_vy) < 0.3, in tenths of a grid cell per time step
MotionThreshold == 3
\* timestep_min: int = 5
TimestepDefault == 5
\* extent_deg = 2.5, in tenths of a degree
ExtentDeg == 25
\* the site of station KOKX, in tenths of a degree
SiteLat == 409
SiteLon == 0 - 729

VARIABLES
    kind,              \* the entry point of the run
    pc,                \* control point of the run
    rawCache,          \* get_cache_dir(): file name -> "absent" | "fresh" | "stale"
    imgCache,          \* get_image_cache_dir(): cache key -> <<>> | <<age, text>>
    scenario,          \* what the files of the remote archive hold
    sweepRead,         \* file name -> "unknown" | "ok" | "bad": can the file be read
    count,             \* get_radar_scans: parameter count
    days_ago,          \* get_radar_scans: loop variable
    recent_scans,      \* get_radar_scans: recent_scans of the day being processed
    scan_i,            \* get_radar_scans: position in recent_scans (1-based)
    downloaded_files,  \* get_radar_scans: downloaded_files
    files,             \* value returned by the last get_radar_scans call
    gs_ret,            \* control point get_radar_scans returns to
    listLog,           \* history: the remote listings made by a direct call
    dlLog,             \* history: the scans processed by a direct call
    field,             \* parameter field of the request
    radar_file,        \* generate_radar_image: parameter radar_file
    img_ret,           \* control point generate_radar_image returns to
    img_result,        \* value returned by the last generate_radar_image call
    frame_count,       \* generate_animation_frames: parameter frame_count
    anim_files,        \* generate_animation_frames: files
    anim_i,            \* generate_animation_frames: position in files (1-based)
    frames,            \* the frames collected by the animation or forecast run
    lead_times,        \* generate_forecast: parameter lead_times
    timestep_min,      \* generate_forecast: parameter timestep_min
    pysteps,           \* whether "from pysteps import motion" succeeds
    grids,             \* generate_forecast: grids
    fc_i,              \* generate_forecast: loop position (1-based)
    mode,              \* generate_forecast: "none" | "persistence" | "motion"
    V,                 \* generate_forecast: the estimated motion field, None if none
    forecast,          \* generate_forecast: the stacked forecast grids
    result,            \* value returned to the caller of the run
    exception,         \* the exception that left the run, None if none did
    ioLog              \* history: lookups, reads, renders and writes of the current
                       \* generate_radar_image or generate_forecast call

scanVars == <<count, days_ago, recent_scans, scan_i, downloaded_files, files,
              gs_ret, listLog, dlLog>>

imgVars == <<field, radar_file, img_ret, img_result>>

animVars == <<frame_count, anim_files, anim_i>>

fcVars == <<lead_times, timestep_min, pysteps, grids, fc_i, mode, V, forecast>>

(***************************************************************************)
(* File names and their order.                                             *)
(***************************************************************************)
Times == 1..MaxTime

\* date = datetime.utcnow() - timedelta(days=days_ago)
DateOf(d) == SearchDays - d

Dates == {DateOf(d) : d \in 0..(SearchDays - 1)}

PlainFiles == {<<dt, t>> : dt \in Dates, t \in Times}

MdmFiles == {<<dt, t, "MDM">> : dt \in Dates, t \in Times}

AllFiles == PlainFiles \cup MdmFiles

\* '_MDM' in str(s.key)
IsMdm(f) == Len(f) = 3

\* the scan time encoded in a file name
Timestamp(f) == f[1] * (MaxTime + 1) + f[2]

\* string order of two file names
FileLess(f, g) ==
    \/ f[1] < g[1]
    \/ f[1] = g[1] /\ f[2] < g[2]
    \/ f[1] = g[1] /\ f[2] = g[2] /\ Len(f) < Len(g)

RECURSIVE InsertSorted(_, _)
InsertSorted(f, s) ==
    IF s = <<>> THEN <<f>>
    ELSE IF FileLess(Head(s), f) \/ Head(s) = f
         THEN <<Head(s)>> \o InsertSorted(f, Tail(s))
         ELSE <<f>> \o s

RECURSIVE SortedSeq(_)
SortedSeq(s) ==
    IF s = <<>> THEN <<>> ELSE InsertSorted(Head(s), SortedSeq(Tail(s)))

\* a forgotten sort
SortFilesSkipped(s) == s

\* downloaded_files.sort()
SortFiles(s) == SortedSeq(s)

RECURSIVE SetToSeq(_)
SetToSeq(S) ==
    IF S = {} THEN <<>>
    ELSE LET x == CHOOSE y \in S : TRUE IN <<x>> \o SetToSeq(S \ {x})

\* the remote archive lists the keys of one day in ascending key order
Listings(d) ==
    {SortedSeq(SetToSeq(S)) : S \in SUBSET {f \in AllFiles : f[1] = DateOf(d)}}

RECURSIVE SelectSeqNotMdm(_)
SelectSeqNotMdm(s) ==
    IF s = <<>> THEN <<>>
    ELSE IF IsMdm(Head(s)) THEN SelectSeqNotMdm(Tail(s))
         ELSE <<Head(s)>> \o SelectSeqNotMdm(Tail(s))

\* a listing taken as it is
ValidScansUnfiltered(scans) == scans

\* valid_scans = [s for s in scans if '_MDM' not in str(s.key)]
ValidScans(scans) == SelectSeqNotMdm(scans)

\* Python s[start:] for an integer start
SliceFrom(s, start) ==
    LET n == Len(s)
        b == IF start < 0 THEN (IF n + start < 0 THEN 0 ELSE n + start)
             ELSE (IF start > n THEN n ELSE start)
    IN SubSeq(s, b + 1, n)

\* s[-c:]
LastN(s, c) == SliceFrom(s, 0 - c)

\* recent_scans = valid_scans[-count:] if len(valid_scans) >= count else valid_scans
RecentScans(valid, c) == IF Len(valid) >= c THEN LastN(valid, c) ELSE valid

Range(s) == {s[i] : i \in 1..Len(s)}

(***************************************************************************)
(* Sweeps.  Values are whole dBZ or m/s; NaN stands for a missing value.   *)
(* The sweep's gates lie in groups of GatesPerNode gates of equal value    *)
(* around the nodes of the regular grid; node k (row-major, 1-based) is in *)
(* row RowOf(k), row 0 being the northern edge.                            *)
(***************************************************************************)
NaN == 0 - 9999

\* scan_time = "Unknown"
UnknownTime == 0 - 1

\* Python None
None == <<>>

FieldRefl == <<"reflectivity">>

FieldVel == <<"velocity">>

Fields == {FieldRefl, FieldVel}

NCells == GridSize * GridSize

Nodes == 1..NCells

RowOf(k) == (k - 1) \div GridSize

ColOf(k) == (k - 1) % GridSize

Abs(x) == IF x < 0 THEN 0 - x ELSE x

\* the weather of a run: what the files of the archive hold
Scenarios == {"storm", "alias", "clear", "sparse", "nofield"}

\* node offset of node k from the storm cell of file f, which moves one node per scan
Offset(f, k) == (k - 1 + NCells - (Timestamp(f) % NCells)) % NCells

ReflStorm(f) ==
    [k \in Nodes |-> CASE Offset(f, k) = 0 -> 45
                       [] Offset(f, k) = 1 -> 3
                       [] Offset(f, k) = 2 -> 12
                       [] OTHER -> 8]

ReflClear(f) ==
    [k \in Nodes |-> CASE Offset(f, k) = 0 -> 9
                       [] Offset(f, k) = 1 -> 3
                       [] OTHER -> 7]

ReflSparse(f) ==
    [k \in Nodes |-> CASE Offset(f, k) = 0 -> 45
                       [] Offset(f, k) = 1 -> NaN
                       [] OTHER -> 2]

VelStorm(f) ==
    [k \in Nodes |-> CASE Offset(f, k) = 0 -> 15
                       [] Offset(f, k) = 1 -> 0
                       [] Offset(f, k) = 2 -> 0 - 12
                       [] OTHER -> 11]

VelClear(f) ==
    [k \in Nodes |-> CASE Offset(f, k) = 0 -> 0 - 3
                       [] Offset(f, k) = 1 -> 0
                       [] OTHER -> 2]

VelSparse(f) ==
    [k \in Nodes |-> CASE Offset(f, k) = 0 -> 15
                       [] Offset(f, k) = 1 -> NaN
                       [] OTHER -> 0]

\* the scan time in the file's time units, in minutes
ScanMinutes(f) == Timestamp(f)

\* pyart.io.read_nexrad_archive(radar_file) of a readable file: radar.fields, radar.time
Sweep(scn, f) ==
    CASE scn = "storm" ->
           [fields |-> ("reflectivity" :> ReflStorm(f)) @@ ("velocity" :> VelStorm(f)),
            time |-> ScanMinutes(f)]
      [] scn = "alias" ->
           [fields |-> ("DBZ" :> ReflClear(f)) @@ ("REF" :> ReflStorm(f))
                       @@ ("V" :> VelClear(f)) @@ ("VEL" :> VelStorm(f)),
            time |-> UnknownTime]
      [] scn = "clear" ->
           [fields |-> ("reflectivity" :> ReflClear(f)) @@ ("velocity" :> VelClear(f)),
            time |-> ScanMinutes(f)]
      [] scn = "sparse" ->
           [fields |-> ("reflectivity" :> ReflSparse(f)) @@ ("velocity" :> VelSparse(f)),
            time |-> ScanMinutes(f)]
      [] OTHER ->
           [fields |-> ("spectrum_width" :> VelClear(f)),
            time |-> ScanMinutes(f)]

\* for try_field in ['reflectivity', 'REF', 'DBZH', 'DBZ'] / ['velocity', 'VEL', 'V']
Aliases(fld) ==
    IF fld = FieldRefl THEN <<"reflectivity", "REF", "DBZH", "DBZ">>
    ELSE <<"velocity", "VEL", "V">>

RECURSIVE FirstPresent(_, _)
FirstPresent(aliases, present) ==
    IF aliases = <<>> THEN ""
    ELSE IF Head(aliases) \in present THEN Head(aliases)
         ELSE FirstPresent(Tail(aliases), present)

\* the field lookup: the data of the first alias present, None when there is none
ResolveField(sweep, fld) ==
    LET a == FirstPresent(Aliases(fld), DOMAIN sweep.fields)
    IN IF a = "" THEN None ELSE sweep.fields[a]

\* the noise threshold: data < 5 (reflectivity), np.abs(data) < 1 (velocity)
BelowNoise(v, fld) ==
    IF fld = FieldRefl THEN v < NoiseFloorRefl ELSE Abs(v) < NoiseFloorVel

\* the mask without the threshold: only missing samples stay missing
MaskMissingOnly(data, fld) == data

\* np.where(data < noise_threshold, np.nan, data) / np.ma.masked_where(...)
MaskNoise(data, fld) ==
    [k \in DOMAIN data |->
        IF data[k] = NaN \/ BelowNoise(data[k], fld) THEN NaN ELSE data[k]]

\* vmin, vmax and cmap of a field
ValueRange(fld) ==
    IF fld = FieldRefl THEN <<0 - 10, 70, "NWSRef">> ELSE <<0 - 30, 30, "NWSVel">>

\* the Renderer: the image is a function of the masked data and the colour scale
Render(data, fld) == <<"png", ValueRange(fld), data>>

\* bounds of the site
Bounds == <<SiteLat + ExtentDeg, SiteLat - ExtentDeg, SiteLon + ExtentDeg, SiteLon - ExtentDeg>>

(***************************************************************************)
(* scipy.interpolate.griddata(method='linear'): a node that carries a      *)
(* valid group keeps its value, a node without one is interpolated inside  *)
(* a triangle of valid nodes that contains it and is NaN outside the       *)
(* convex hull of the valid nodes.  Values are rounded down to whole       *)
(* units.                                                                  *)
(***************************************************************************)
Cross(a, b, c) ==
    (ColOf(b) - ColOf(a)) * (RowOf(c) - RowOf(a))
  - (RowOf(b) - RowOf(a)) * (ColOf(c) - ColOf(a))

ValidNodes(values) == {k \in Nodes : values[k] # NaN}

\* the valid nodes span a triangle (otherwise the triangulation raises)
Triangulable(values) ==
    \E a, b, c \in ValidNodes(values) : Cross(a, b, c) # 0

InTriangle(p, a, b, c) ==
    LET d1 == Cross(a, b, p)
        d2 == Cross(b, c, p)
        d3 == Cross(c, a, p)
    IN /\ Cross(a, b, c) # 0
       /\ \/ d1 >= 0 /\ d2 >= 0 /\ d3 >= 0
          \/ d1 <= 0 /\ d2 <= 0 /\ d3 <= 0

Triangles(values, p) ==
    {t \in ValidNodes(values) \X ValidNodes(values) \X ValidNodes(values) :
        t[1] < t[2] /\ t[2] < t[3] /\ InTriangle(p, t[1], t[2], t[3])}

Barycentric(values, p, t) ==
    LET d  == Cross(t[1], t[2], t[3])
        w1 == Cross(t[2], t[3], p)
        w2 == Cross(t[3], t[1], p)
        w3 == Cross(t[1], t[2], p)
        n  == w1 * values[t[1]] + w2 * values[t[2]] + w3 * values[t[3]]
    IN IF d > 0 THEN n \div d ELSE (0 - n) \div (0 - d)

GridData(values) ==
    [p \in Nodes |->
        IF values[p] # NaN THEN values[p]
        ELSE IF Triangles(values, p) = {} THEN NaN
             ELSE Barycentric(values, p, CHOOSE t \in Triangles(values, p) : TRUE)]

\* np.sum(valid_mask): the number of gates that are not NaN
ValidPoints(values) == GatesPerNode * Cardinality(ValidNodes(values))

\* extract_radar_grid on a readable sweep: None, or the grid with its time and bounds
ExtractGrid(sweep, fld) ==
    LET data == ResolveField(sweep, fld)
    IN IF data = None THEN None
       ELSE LET values == MaskNoise(data, fld)
            IN IF ValidPoints(values) < MinValidPoints THEN None
               ELSE IF ~Triangulable(values) THEN None
               ELSE <<GridData(values), sweep.time, Bounds>>

(***************************************************************************)
(* Forecast arithmetic.  A frame is a grid (a sequence over Nodes); motion *)
(* vectors are in tenths of a grid cell per time step.                     *)
(***************************************************************************)
RECURSIVE SumSeq(_)
SumSeq(s) == IF s = <<>> THEN 0 ELSE Head(s) + SumSeq(Tail(s))

RECURSIVE NotNaN(_)
NotNaN(s) ==
    IF s = <<>> THEN <<>>
    ELSE IF Head(s) = NaN THEN NotNaN(Tail(s)) ELSE <<Head(s)>> \o NotNaN(Tail(s))

\* the cells of one grid above the significance value
Significant(grid) == Cardinality({k \in Nodes : grid[k] # NaN /\ grid[k] > SignificantValue})

RECURSIVE SignificantCount(_)
SignificantCount(stack) ==
    IF stack = <<>> THEN 0 ELSE Significant(Head(stack)) + SignificantCount(Tail(stack))

\* a coverage test that never fails
CoverageGateOff(stack) == FALSE

\* significant_pixels = np.sum(radar_stack > 10) / radar_stack.size; significant_pixels < 0.01
CoverageTooLow(stack) ==
    100 * SignificantCount(stack) < MinCoveragePct * (Len(stack) * NCells)

\* np.nan_to_num(radar_stack, nan=0.0)
Filled(grid) == [k \in Nodes |-> IF grid[k] = NaN THEN 0 ELSE grid[k]]

\* a constant component of a motion field
Uniform(v) == [k \in Nodes |-> v]

\* a component with a missing vector at the first node
Holed(v) == [k \in Nodes |-> IF k = 1 THEN NaN ELSE v]

\* motion fields the estimator may return: <<V[0], V[1]>>
MotionFields ==
    { <<Uniform(1), Uniform(2)>>,
      <<Uniform(10), Uniform(0)>>,
      <<Uniform(3), Uniform(0)>>,
      <<Uniform(0), Uniform(0 - 3)>>,
      <<Holed(2), Uniform(0 - 2)>>,
      <<Holed(0 - 10), Holed(10)>>,
      <<Uniform(NaN), Uniform(10)>>,
      <<Uniform(10), Uniform(NaN)>> }

\* the comparison with <= in place of <
NearZeroInclusive(v) == v # <<>> /\ Abs(SumSeq(v)) <= MotionThreshold * Len(v)

\* np.abs(np.mean(v)) < 0.3 for the non-missing vectors v (np.mean of nothing is NaN,
\* and no comparison with NaN is true)
NearZero(v) == v # <<>> /\ Abs(SumSeq(v)) < MotionThreshold * Len(v)

\* lines 749-753: with vectors in V[0] and none in V[1], np.min(v_x) raises inside
\* the try block
StatsRaise(mv) == NotNaN(mv[1]) # <<>> /\ NotNaN(mv[2]) = <<>>

\* lines 747-766: the estimated motion is essentially zero
MotionNearZero(mv) ==
    LET v_y == NotNaN(mv[1])
        v_x == NotNaN(mv[2])
    IN Len(v_y) > 0 /\ NearZero(v_y) /\ NearZero(v_x)

\* (i + 1) * np.nanmean(v), in tenths of a cell and rounded down to a tenth
ShiftTenths(v, step) == (step * SumSeq(NotNaN(v))) \div Len(NotNaN(v))

\* the frame translated by whole cells, 0 where nothing is shifted in
ShiftWhole(frame, sy, sx) ==
    [k \in Nodes |->
        LET r == RowOf(k) - sy
            c == ColOf(k) - sx
        IN IF r >= 0 /\ r < GridSize /\ c >= 0 /\ c < GridSize
           THEN frame[r * GridSize + c + 1] ELSE 0]

\* scipy.ndimage.shift(frame, [shift_y, shift_x], mode='constant', cval=0): exact for
\* whole cells, interpolated between the neighbouring whole-cell translations otherwise
NdShift(frame, ty, tx) ==
    LET sy == ty \div 10
        sx == tx \div 10
        fy == ty % 10
        fx == tx % 10
        a  == ShiftWhole(frame, sy, sx)
        b  == ShiftWhole(frame, sy + 1, sx)
        c  == ShiftWhole(frame, sy, sx + 1)
        d  == ShiftWhole(frame, sy + 1, sx + 1)
    IN [k \in Nodes |->
          ((10 - fy) * (10 - fx) * a[k] + fy * (10 - fx) * b[k]
           + (10 - fy) * fx * c[k] + fy * fx * d[k]) \div 100]

\* both mean shifts exist
ShiftDefined(mv) == NotNaN(mv[1]) # <<>> /\ NotNaN(mv[2]) # <<>>

\* the frame of lead step i (1-based) in motion mode
ShiftedFrame(last_frame, mv, i) ==
    NdShift(last_frame, ShiftTenths(mv[1], i), ShiftTenths(mv[2], i))

\* np.stack([last_frame] * lead_times): the last frame repeated
Persistence(last_frame, n) == [i \in 1..n |-> last_frame]

\* the mask of a forecast frame: below the noise threshold or NaN
MaskFrame(frame, fld) == MaskNoise(frame, fld)

(***************************************************************************)
(* The rendered tile cache.  A cache key is the file's base name, "_" and  *)
(* the field, hashed; the names are token sequences joined by "_", and the *)
(* hash is taken to be injective.  A cache file is <<>> (absent) or        *)
(* <<age, text>>.                                                          *)
(***************************************************************************)
\* key = f"{filename}_{field}"; hashlib.md5(key.encode()).hexdigest()
get_image_cache_key(file, fld) == file \o fld

\* the keys of the scans and fields of the pipelines
ImgKeys == {get_image_cache_key(f, fld) : f \in PlainFiles, fld \in Fields}

\* json.dumps(data) of an artifact record
JsonDumps(data) ==
    <<"image", data.image, "timestamp", data.timestamp,
      "bounds", data.bounds, "error", data.error>>

\* json.loads succeeds on a complete text only
JsonValid(text) == Len(text) = 8

\* json.loads(text)
JsonLoads(text) ==
    [image |-> text[2], timestamp |-> text[4], bounds |-> text[6], error |-> text[8]]

\* get_cached_image: the stored record, None for no file or an unreadable one
get_cached_image(cache, file, fld) ==
    LET entry == cache[get_image_cache_key(file, fld)]
    IN IF entry = <<>> THEN None
       ELSE IF JsonValid(entry[2]) THEN JsonLoads(entry[2]) ELSE None

\* what a write that raises leaves behind: nothing new, an empty file or a partial text
WriteOutcomes == {"ok", "refused", "empty", "partial"}

\* save_cached_image: cache_file.write_text(json.dumps(data)); a failure is printed
save_cached_image(cache, file, fld, data, outcome) ==
    LET key  == get_image_cache_key(file, fld)
        text == JsonDumps(data)
    IN CASE outcome = "ok"      -> [cache EXCEPT ![key] = <<"fresh", text>>]
         [] outcome = "empty"   -> [cache EXCEPT ![key] = <<"fresh", <<>>>>]
         [] outcome = "partial" -> [cache EXCEPT ![key] = <<"fresh", SubSeq(text, 1, 3)>>]
         [] OTHER               -> cache

\* the truth value of a returned record or None (if cached:, if result['image']:)
Truthy(x) == x # None

\* a lookup whose result is ignored
CacheHitNever(cached) == FALSE

\* if cached: return cached
CacheHit(cached) == Truthy(cached)

(***************************************************************************)
(* cleanup_old_cache: every file older than the cutoff is unlinked; an     *)
(* unlink that raises is swallowed and leaves the file in place.           *)
(***************************************************************************)
StaleRaw == {f \in DOMAIN rawCache : rawCache[f] = "stale"}

StaleImg == {k \in DOMAIN imgCache : imgCache[k] # <<>> /\ imgCache[k][1] = "stale"}

cleanup_old_cache ==
    /\ pc = "cleanup"
    /\ \E kept \in SUBSET StaleRaw :
          rawCache' = [f \in DOMAIN rawCache |->
                         IF rawCache[f] = "stale" /\ f \notin kept
                         THEN "absent" ELSE rawCache[f]]
    /\ \E kept \in SUBSET StaleImg :
          imgCache' = [k \in DOMAIN imgCache |->
                         IF k \in StaleImg /\ k \notin kept THEN <<>> ELSE imgCache[k]]
    /\ days_ago' = 0
    /\ downloaded_files' = <<>>
    /\ pc' = "list"
    /\ UNCHANGED <<kind, count, recent_scans, scan_i, files, gs_ret, listLog, dlLog>>
    /\ UNCHANGED <<scenario, sweepRead, imgVars, animVars, frames, fcVars,
                   result, exception, ioLog>>

(***************************************************************************)
(* get_radar_scans, one step per remote listing and per scan.              *)
(***************************************************************************)
\* the histories of get_radar_scans are kept for a direct call only
Logged(log, e) == IF kind = "scans" THEN Append(log, e) ELSE log

\* return <value> from get_radar_scans: the locals go out of scope
ReturnScans(value) ==
    /\ files' = value
    /\ pc' = gs_ret
    /\ days_ago' = 0
    /\ downloaded_files' = <<>>
    /\ recent_scans' = <<>>
    /\ scan_i' = 0

\* the for loop over days_ago moves on, or ends in the final sort and return
NextDay(df) ==
    IF days_ago + 1 < SearchDays
    THEN /\ days_ago' = days_ago + 1
         /\ pc' = "list"
         /\ downloaded_files' = df
         /\ recent_scans' = <<>>
         /\ scan_i' = 0
         /\ UNCHANGED files
    ELSE ReturnScans(SortFiles(df))

\* the for loop over recent_scans moves on
NextScan(df) ==
    IF scan_i < Len(recent_scans)
    THEN /\ scan_i' = scan_i + 1
         /\ pc' = "scan"
         /\ downloaded_files' = df
         /\ UNCHANGED <<recent_scans, days_ago, files>>
    ELSE NextDay(df)

get_avail_scans ==
    /\ pc = "list"
    /\ \/ \* conn.get_avail_scans raises: logged, next day
          /\ listLog' = Logged(listLog, [day |-> days_ago, ok |-> FALSE, valid |-> <<>>, mdm |-> FALSE])
          /\ NextDay(downloaded_files)
       \/ \E scans \in Listings(days_ago) :
            LET valid  == ValidScans(scans)
                recent == RecentScans(valid, count)
            IN /\ listLog' = Logged(listLog, [day |-> days_ago, ok |-> TRUE, valid |-> valid,
                                               mdm |-> Len(scans) > Len(valid)])
               /\ IF scans = <<>> \/ valid = <<>> \/ recent = <<>>
                  THEN NextDay(downloaded_files)
                  ELSE /\ recent_scans' = recent
                       /\ scan_i' = 1
                       /\ pc' = "scan"
                       /\ UNCHANGED <<days_ago, downloaded_files, files>>
    /\ UNCHANGED <<kind, rawCache, count, gs_ret, dlLog>>
    /\ UNCHANGED <<imgCache, scenario, sweepRead, imgVars, animVars, frames, fcVars,
                   result, exception, ioLog>>

\* if len(downloaded_files) >= count
CountReached(df) == Len(df) >= count

\* the length check after a scan: sort and return downloaded_files[-count:], or go on
CheckCount(df) ==
    IF CountReached(df)
    THEN ReturnScans(LastN(SortFiles(df), count))
    ELSE NextScan(df)

process_scan ==
    /\ pc = "scan"
    /\ LET filename == recent_scans[scan_i]
           more     == scan_i < Len(recent_scans) \/ days_ago + 1 < SearchDays
       IN \/ \* cached_file.exists(), or the download succeeds and is moved in
             \E how \in {"cached", "ok"} :
               /\ (how = "cached") <=> (rawCache[filename] # "absent")
               /\ rawCache' = IF how = "ok"
                              THEN [rawCache EXCEPT ![filename] = "fresh"]
                              ELSE rawCache
               /\ LET df == Append(downloaded_files, filename)
                  IN /\ dlLog' = Logged(dlLog, [file |-> filename, how |-> how,
                                                more |-> more,
                                                returned |-> CountReached(df)])
                     /\ CheckCount(df)
          \/ \* the download reports no success (results.iter_success() is empty)
             /\ rawCache[filename] = "absent"
             /\ dlLog' = Logged(dlLog, [file |-> filename, how |-> "failed",
                                        more |-> more,
                                        returned |-> CountReached(downloaded_files)])
             /\ UNCHANGED rawCache
             /\ CheckCount(downloaded_files)
          \/ \* conn.download or shutil.move raises: logged, continue
             /\ rawCache[filename] = "absent"
             /\ dlLog' = Logged(dlLog, [file |-> filename, how |-> "raise",
                                        more |-> more, returned |-> FALSE])
             /\ UNCHANGED rawCache
             /\ NextScan(downloaded_files)
    /\ UNCHANGED <<kind, count, gs_ret, listLog>>
    /\ UNCHANGED <<imgCache, scenario, sweepRead, imgVars, animVars, frames, fcVars,
                   result, exception, ioLog>>

(***************************************************************************)
(* generate_radar_image.  A call with radar_file = None first runs         *)
(* get_radar_scans(station, count=1) (get_latest_radar_file) and resumes   *)
(* at "img_lookup".                                                        *)
(***************************************************************************)
ErrorResult(msg) ==
    [image |-> None, timestamp |-> None, bounds |-> None, error |-> msg]

\* the artifact of a scan: image, scan time, bounds, no error
Artifact(sweep, data, fld) ==
    [image |-> Render(MaskNoise(data, fld), fld), timestamp |-> <<sweep.time>>,
     bounds |-> Bounds, error |-> None]

\* return <value> from generate_radar_image
ReturnImage(value, log) ==
    /\ img_result' = value
    /\ ioLog' = Append(log, <<"img_return", value>>)
    /\ radar_file' = None
    /\ pc' = img_ret
    /\ result' = IF img_ret = "done" THEN value ELSE result

\* lines 377-391: the latest file, the no-data result, the cache lookup
generate_radar_image_lookup ==
    /\ pc = "img_lookup"
    /\ LET rf == IF radar_file # None THEN radar_file
                 ELSE IF files # <<>> THEN files[1] ELSE None
       IN IF rf = None
          THEN ReturnImage(ErrorResult(<<"No recent data">>), <<>>)
          ELSE LET cached == get_cached_image(imgCache, rf, field)
                   log    == << <<"lookup", cached>> >>
               IN IF CacheHit(cached)
                  THEN ReturnImage(cached, log)
                  ELSE /\ radar_file' = rf
                       /\ pc' = "img_render"
                       /\ ioLog' = log
                       /\ UNCHANGED <<img_result, result>>
    /\ UNCHANGED <<kind, rawCache, imgCache, scenario, sweepRead, scanVars,
                   field, img_ret, animVars, frames, fcVars, exception>>

\* an error return that stores its result first
ErrorReturnSaved(cache, file, fld, value) == save_cached_image(cache, file, fld, value, "ok")

\* the error returns of lines 458-465 and 517-524: nothing is stored
ErrorReturn(cache, file, fld, value) == cache

\* the file turns out readable or not the first time it is read
ReadOutcomes(f) == IF sweepRead[f] = "unknown" THEN {"ok", "bad"} ELSE {sweepRead[f]}

\* lines 393-524: read the sweep, find the field, mask, render, save, return
generate_radar_image_render ==
    /\ pc = "img_render"
    /\ \E r \in ReadOutcomes(radar_file) :
         /\ sweepRead' = [sweepRead EXCEPT ![radar_file] = r]
         /\ LET log1  == Append(ioLog, <<"read", radar_file>>)
                sweep == Sweep(scenario, radar_file)
                data  == ResolveField(sweep, field)
            IN IF r = "bad"
               THEN /\ ReturnImage(ErrorResult(<<"read error">>), log1)
                    /\ imgCache' = ErrorReturn(imgCache, radar_file, field,
                                               ErrorResult(<<"read error">>))
               ELSE IF data = None
               THEN /\ ReturnImage(ErrorResult(<<"Field not found", DOMAIN sweep.fields>>), log1)
                    /\ imgCache' = ErrorReturn(imgCache, radar_file, field,
                                       ErrorResult(<<"Field not found", DOMAIN sweep.fields>>))
               ELSE \/ \* the Renderer raises
                       /\ ReturnImage(ErrorResult(<<"render error">>),
                                      Append(log1, <<"render", radar_file>>))
                       /\ imgCache' = ErrorReturn(imgCache, radar_file, field,
                                                  ErrorResult(<<"render error">>))
                    \/ \E w \in WriteOutcomes :
                         LET art == Artifact(sweep, data, field)
                         IN /\ imgCache' = save_cached_image(imgCache, radar_file, field, art, w)
                            /\ ReturnImage(art, log1 \o << <<"render", radar_file>>,
                                    <<"write", get_image_cache_key(radar_file, field), w>> >>)
    /\ UNCHANGED <<kind, rawCache, scenario, scanVars, field, img_ret,
                   animVars, frames, fcVars, exception>>

(***************************************************************************)
(* generate_animation_frames.                                              *)
(***************************************************************************)
\* generate_radar_image(station, field): the call that looks for the latest file
CallImageLatest(ret) ==
    /\ radar_file' = None
    /\ img_ret' = ret
    /\ count' = 1
    /\ gs_ret' = "img_lookup"
    /\ pc' = "cleanup"

\* lines 530-539: no files, or the first file of the loop
generate_animation_frames_files ==
    /\ pc = "anim_files"
    /\ IF files = <<>>
       THEN /\ CallImageLatest("anim_single")
            /\ UNCHANGED <<anim_files, anim_i>>
       ELSE /\ anim_files' = files
            /\ anim_i' = 1
            /\ radar_file' = files[1]
            /\ img_ret' = "anim_loop"
            /\ pc' = "img_lookup"
            /\ UNCHANGED <<count, gs_ret>>
    /\ frames' = <<>>
    /\ UNCHANGED <<kind, rawCache, imgCache, scenario, sweepRead, days_ago, recent_scans,
                   scan_i, downloaded_files, files, listLog, dlLog, field, img_result,
                   frame_count, fcVars, result, exception, ioLog>>

\* lines 540-546: keep the frame if it has an image, next file, or return
generate_animation_frames_loop ==
    /\ pc = "anim_loop"
    /\ LET fr == IF Truthy(img_result.image) THEN Append(frames, img_result) ELSE frames
       IN /\ frames' = fr
          /\ IF anim_i < Len(anim_files)
             THEN /\ anim_i' = anim_i + 1
                  /\ radar_file' = anim_files[anim_i + 1]
                  /\ pc' = "img_lookup"
                  /\ UNCHANGED <<img_ret, count, gs_ret, result>>
             ELSE IF fr # <<>>
             THEN /\ result' = fr
                  /\ pc' = "done"
                  /\ UNCHANGED <<anim_i, radar_file, img_ret, count, gs_ret>>
             ELSE /\ CallImageLatest("anim_single")
                  /\ UNCHANGED <<anim_i, result>>
    /\ UNCHANGED <<kind, rawCache, imgCache, scenario, sweepRead, days_ago, recent_scans,
                   scan_i, downloaded_files, files, listLog, dlLog, field, img_result,
                   frame_count, anim_files, fcVars, exception, ioLog>>

\* return [generate_radar_image(station, field)]
generate_animation_frames_single ==
    /\ pc = "anim_single"
    /\ result' = <<img_result>>
    /\ pc' = "done"
    /\ UNCHANGED <<kind, rawCache, imgCache, scenario, sweepRead, scanVars, imgVars,
                   animVars, frames, fcVars, exception, ioLog>>

(***************************************************************************)
(* get_cached_radar: the newest cached raw file, served from the image     *)
(* cache or generated without a download.                                  *)
(***************************************************************************)
CachedFiles == {f \in PlainFiles : rawCache[f] # "absent"}

Newest(S) == CHOOSE f \in S : \A g \in S : g = f \/ FileLess(g, f)

get_cached_radar ==
    /\ pc = "cached_start"
    /\ IF CachedFiles = {}
       THEN /\ result' = ErrorResult(<<"No cached data">>)
            /\ pc' = "done"
            /\ UNCHANGED <<radar_file, img_ret, ioLog>>
       ELSE LET rf     == Newest(CachedFiles)
                cached == get_cached_image(imgCache, rf, field)
            IN /\ ioLog' = Append(ioLog, <<"lookup", cached>>)
               /\ IF CacheHit(cached)
                  THEN /\ result' = [image |-> cached.image, timestamp |-> cached.timestamp,
                                     bounds |-> cached.bounds, error |-> None]
                       /\ pc' = "done"
                       /\ UNCHANGED <<radar_file, img_ret>>
                  ELSE /\ radar_file' = rf
                       /\ img_ret' = "cached_ret"
                       /\ pc' = "img_lookup"
                       /\ UNCHANGED result
    /\ UNCHANGED <<kind, rawCache, imgCache, scenario, sweepRead, scanVars, field,
                   img_result, animVars, frames, fcVars, exception>>

\* lines 1241-1258: the generated result, or its error
get_cached_radar_return ==
    /\ pc = "cached_ret"
    /\ result' = IF img_result.error # None THEN ErrorResult(img_result.error)
                 ELSE img_result
    /\ pc' = "done"
    /\ UNCHANGED <<kind, rawCache, imgCache, scenario, sweepRead, scanVars, imgVars,
                   animVars, frames, fcVars, exception, ioLog>>

(***************************************************************************)
(* generate_forecast.                                                      *)
(***************************************************************************)
ForecastError(msg) == [error |-> msg, frames |-> <<>>]

\* the current instant, later than every scan
Now == (SearchDays + 1) * (MaxTime + 1)

\* the test against 1 in place of 2
TooFewScansOne(fs) == Len(fs) < 1

\* if len(files) < 2
TooFewScans(fs) == Len(fs) < 2

\* the test against 1 in place of 2
TooFewGridsOne(gs) == Len(gs) < 1

\* if len(grids) < 2
TooFewGrids(gs) == Len(gs) < 2

\* lines 673-682: the pysteps import, then get_radar_scans(station, count=6)
generate_forecast_start ==
    /\ pc = "fc_start"
    /\ IF ~pysteps
       THEN /\ result' = ForecastError(<<"Forecast feature requires pysteps library">>)
            /\ pc' = "done"
            /\ UNCHANGED <<count, gs_ret>>
       ELSE /\ count' = ForecastScanCount
            /\ gs_ret' = "fc_files"
            /\ pc' = "cleanup"
            /\ UNCHANGED result
    /\ UNCHANGED <<kind, rawCache, imgCache, scenario, sweepRead, days_ago, recent_scans,
                   scan_i, downloaded_files, files, listLog, dlLog, imgVars, animVars,
                   frames, fcVars, exception, ioLog>>

\* lines 684-693: fewer than two scans is an error
generate_forecast_files ==
    /\ pc = "fc_files"
    /\ IF TooFewScans(files)
       THEN /\ result' = ForecastError(<<"Not enough radar scans for forecasting", Len(files)>>)
            /\ pc' = "done"
            /\ UNCHANGED <<grids, fc_i>>
       ELSE /\ grids' = <<>>
            /\ fc_i' = 1
            /\ pc' = "fc_extract"
            /\ UNCHANGED result
    /\ UNCHANGED <<kind, rawCache, imgCache, scenario, sweepRead, scanVars, imgVars,
                   animVars, frames, lead_times, timestep_min, pysteps, mode, V, forecast,
                   exception, ioLog>>

\* lines 694-703 with extract_radar_grid (549-667): one file of the loop; every
\* exception inside extract_radar_grid yields None
extract_radar_grid ==
    /\ pc = "fc_extract"
    /\ LET f == files[fc_i]
       IN \E r \in ReadOutcomes(f) :
            LET grid == IF r = "bad" THEN None ELSE ExtractGrid(Sweep(scenario, f), field)
                g    == IF grid # None THEN Append(grids, grid) ELSE grids
            IN /\ sweepRead' = [sweepRead EXCEPT ![f] = r]
               /\ ioLog' = Append(ioLog, <<"extract", f>>)
               /\ grids' = g
               /\ IF fc_i < Len(files)
                  THEN /\ fc_i' = fc_i + 1
                       /\ UNCHANGED <<pc, result>>
                  ELSE IF TooFewGrids(g)
                  THEN /\ result' = ForecastError(<<"Failed to extract radar grids for forecasting">>)
                       /\ pc' = "done"
                       /\ UNCHANGED fc_i
                  ELSE /\ pc' = "fc_coverage"
                       /\ UNCHANGED <<fc_i, result>>
    /\ UNCHANGED <<kind, rawCache, imgCache, scenario, scanVars, imgVars, animVars, frames,
                   lead_times, timestep_min, pysteps, mode, V, forecast, exception>>

\* radar_stack = np.stack([g['data'] for g in grids], axis=0)
RadarStack == [i \in 1..Len(grids) |-> grids[i][1]]

\* lines 705-726: the precipitation coverage gate
generate_forecast_coverage ==
    /\ pc = "fc_coverage"
    /\ ioLog' = Append(ioLog, <<"coverage", SignificantCount(RadarStack)>>)
    /\ IF CoverageTooLow(RadarStack)
       THEN /\ result' = ForecastError(<<"Not enough precipitation to generate forecast">>)
            /\ pc' = "done"
       ELSE /\ pc' = "fc_motion"
            /\ UNCHANGED result
    /\ UNCHANGED <<kind, rawCache, imgCache, scenario, sweepRead, scanVars, imgVars,
                   animVars, frames, fcVars, exception>>

\* last_frame = radar_stack_filled[-1]
LastFrame == Filled(RadarStack[Len(RadarStack)])

\* if use_persistence or V is None
UsePersistence(use_persistence, mv) == use_persistence \/ mv = None

\* what the shift produces when a mean shift is NaN: unspecified; the empty and the
\* unshifted frame stand for the outcomes
UndefinedShifts == {[k \in Nodes |-> 0], LastFrame}

\* lines 731-825: estimate the motion, choose the mode, extrapolate
generate_forecast_motion ==
    /\ pc = "fc_motion"
    /\ ioLog' = Append(ioLog, <<"estimate">>)
    /\ \E est \in {None} \cup MotionFields :
         LET use_persistence == IF est = None \/ StatsRaise(est) THEN TRUE
                                ELSE MotionNearZero(est)
             persist         == UsePersistence(use_persistence, est)
         IN /\ V' = est
            /\ mode' = IF persist THEN "persistence" ELSE "motion"
            /\ IF lead_times < 1
               THEN \* np.stack of an empty list raises, in the handler of line 821 too
                    /\ exception' = <<"ValueError">>
                    /\ pc' = "raised"
                    /\ UNCHANGED <<forecast, fc_i>>
               ELSE /\ pc' = "fc_render"
                    /\ fc_i' = 1
                    /\ UNCHANGED exception
                    /\ IF persist
                       THEN forecast' = Persistence(LastFrame, lead_times)
                       ELSE IF ShiftDefined(est)
                       THEN forecast' = [i \in 1..lead_times |-> ShiftedFrame(LastFrame, est, i)]
                       ELSE \E fr \in UndefinedShifts :
                               forecast' = [i \in 1..lead_times |-> fr]
    /\ frames' = <<>>
    /\ UNCHANGED <<kind, rawCache, imgCache, scenario, sweepRead, scanVars, imgVars,
                   animVars, lead_times, timestep_min, pysteps, grids, result>>

\* base_time: the last grid's scan time, the current instant if it does not parse
BaseTime == LET t == grids[Len(grids)][2] IN IF t = UnknownTime THEN Now ELSE t

\* the frame record with the 0-based loop index in place of i + 1
ForecastFrameZeroBased(i) ==
    [image |-> Render(MaskFrame(forecast[i], field), field),
     timestamp |-> <<BaseTime + (i - 1) * timestep_min>>,
     bounds |-> grids[Len(grids)][3],
     lead_time_min |-> (i - 1) * timestep_min,
     is_forecast |-> TRUE]

\* lines 889-898: the frame record of lead step i (1-based)
ForecastFrame(i) ==
    [image |-> Render(MaskFrame(forecast[i], field), field),
     timestamp |-> <<BaseTime + i * timestep_min>>,
     bounds |-> grids[Len(grids)][3],
     lead_time_min |-> i * timestep_min,
     is_forecast |-> TRUE]

\* lines 845-910: render one frame; a frame whose rendering raises is left out
generate_forecast_render ==
    /\ pc = "fc_render"
    /\ ioLog' = Append(ioLog, <<"render", fc_i>>)
    /\ \E ok \in BOOLEAN :
         LET fr == IF ok THEN Append(frames, ForecastFrame(fc_i)) ELSE frames
         IN /\ frames' = fr
            /\ IF fc_i < lead_times
               THEN /\ fc_i' = fc_i + 1
                    /\ UNCHANGED <<pc, result>>
               ELSE /\ result' = [error |-> None, frames |-> fr]
                    /\ pc' = "done"
                    /\ UNCHANGED fc_i
    /\ UNCHANGED <<kind, rawCache, imgCache, scenario, sweepRead, scanVars, imgVars,
                   animVars, lead_times, timestep_min, pysteps, grids, mode, V, forecast,
                   exception>>

(***************************************************************************)
(* SpecScans: one call get_radar_scans(station, count) on an arbitrary     *)
(* cache directory.                                                        *)
(***************************************************************************)
RawCacheInits ==
    {c \in [AllFiles -> {"absent", "fresh", "stale"}] :
        /\ \A f \in MdmFiles : c[f] = "absent"
        /\ Cardinality({f \in PlainFiles : c[f] # "absent"}) <= MaxCached}

InitScans ==
    /\ kind = "scans"
    /\ pc = "cleanup"
    /\ rawCache \in RawCacheInits
    /\ count \in MinCount..MaxCount
    /\ days_ago = 0
    /\ recent_scans = <<>>
    /\ scan_i = 0
    /\ downloaded_files = <<>>
    /\ files = <<>>
    /\ gs_ret = "done"
    /\ listLog = <<>>
    /\ dlLog = <<>>
    /\ imgCache = [k \in ImgKeys |-> <<>>]
    /\ scenario = "storm"
    /\ sweepRead = [f \in PlainFiles |-> "unknown"]
    /\ field = FieldRefl
    /\ radar_file = None
    /\ img_ret = "done"
    /\ img_result = None
    /\ frame_count = 0
    /\ anim_files = <<>>
    /\ anim_i = 0
    /\ frames = <<>>
    /\ lead_times = 0
    /\ timestep_min = 0
    /\ pysteps = TRUE
    /\ grids = <<>>
    /\ fc_i = 0
    /\ mode = "none"
    /\ V = None
    /\ forecast = <<>>
    /\ result = None
    /\ exception = None
    /\ ioLog = <<>>

vars == <<kind, pc, rawCache, imgCache, scenario, sweepRead, scanVars, imgVars,
          animVars, frames, fcVars, result, exception, ioLog>>

NextScans ==
    \/ cleanup_old_cache
    \/ get_avail_scans
    \/ process_scan

SpecScans == InitScans /\ [][NextScans]_vars

(***************************************************************************)
(* Spec: one request to one of the pipelines (single image, animation,     *)
(* forecast, cached image) on a cache directory earlier requests left.     *)
(***************************************************************************)
\* at most one raw file is cached when a pipeline request starts
PipeRawInits ==
    {c \in RawCacheInits : Cardinality({f \in PlainFiles : c[f] # "absent"}) <= 1}

\* the artifacts an earlier request can have stored for the field
StoredTexts(scn, f, fld) ==
    LET sweep == Sweep(scn, f)
        data  == ResolveField(sweep, fld)
    IN IF data = None THEN {}
       ELSE LET text == JsonDumps(Artifact(sweep, data, fld))
            IN {<<"fresh", text>>, <<"stale", text>>, <<"fresh", SubSeq(text, 1, 3)>>}

\* the timestep_min values of a forecast request: none, and the default
Timesteps == {0, TimestepDefault}

\* at most one image is cached when a pipeline request starts
PipeImgInits(scn, fld) ==
    {[k \in ImgKeys |-> <<>>]}
    \cup UNION {{[k \in ImgKeys |-> IF k = get_image_cache_key(f, fld) THEN e ELSE <<>>] :
                    e \in StoredTexts(scn, f, fld)} : f \in PlainFiles}

Init ==
    /\ kind \in {"image", "anim", "forecast", "cached"}
    /\ field \in IF kind = "anim" THEN {FieldRefl} ELSE Fields
    /\ scenario \in IF kind = "anim" THEN {"storm", "nofield"} ELSE Scenarios
    /\ rawCache \in PipeRawInits
    /\ imgCache \in IF kind \in {"forecast", "anim"} THEN {[k \in ImgKeys |-> <<>>]}
                    ELSE PipeImgInits(scenario, field)
    /\ sweepRead = [f \in PlainFiles |-> "unknown"]
    /\ frame_count \in IF kind = "anim" THEN MinCount..MaxCount ELSE {0}
    /\ lead_times \in IF kind = "forecast" THEN MinLead..MaxLead ELSE {0}
    /\ timestep_min \in IF kind = "forecast" THEN Timesteps ELSE {TimestepDefault}
    /\ pysteps \in IF kind = "forecast" THEN BOOLEAN ELSE {TRUE}
    /\ pc = CASE kind = "forecast" -> "fc_start"
              [] kind = "cached" -> "cached_start"
              [] OTHER -> "cleanup"
    /\ count = CASE kind = "anim" -> frame_count
                 [] kind = "image" -> 1
                 [] OTHER -> 0
    /\ gs_ret = CASE kind = "anim" -> "anim_files"
                  [] OTHER -> "img_lookup"
    /\ img_ret = "done"
    /\ days_ago = 0
    /\ recent_scans = <<>>
    /\ scan_i = 0
    /\ downloaded_files = <<>>
    /\ files = <<>>
    /\ listLog = <<>>
    /\ dlLog = <<>>
    /\ radar_file = None
    /\ img_result = None
    /\ anim_files = <<>>
    /\ anim_i = 0
    /\ frames = <<>>
    /\ grids = <<>>
    /\ fc_i = 0
    /\ mode = "none"
    /\ V = None
    /\ forecast = <<>>
    /\ result = None
    /\ exception = None
    /\ ioLog = <<>>

Next ==
    \/ cleanup_old_cache
    \/ get_avail_scans
    \/ process_scan
    \/ generate_radar_image_lookup
    \/ generate_radar_image_render
    \/ generate_animation_frames_files
    \/ generate_animation_frames_loop
    \/ generate_animation_frames_single
    \/ get_cached_radar
    \/ get_cached_radar_return
    \/ generate_forecast_start
    \/ generate_forecast_files
    \/ extract_radar_grid
    \/ generate_forecast_coverage
    \/ generate_forecast_motion
    \/ generate_forecast_render

Spec == Init /\ [][Next]_vars

(***************************************************************************)
(* SpecCache: save_cached_image, get_cached_image and the image part of    *)
(* cleanup_old_cache called in any order on the image cache directory;     *)
(* ioLog is the history of the calls.                                      *)
(***************************************************************************)
\* the scans whose artifacts the calls store and look up
CacheFiles == {f \in PlainFiles : f[2] = 1}

\* the artifacts a caller stores for a scan and a field
CacheValues(f, fld) ==
    {Artifact(Sweep(scn, f), ResolveField(Sweep(scn, f), fld), fld) : scn \in {"storm", "clear"}}

\* file names and field names are free strings: a scan named by its date alone,
\* and a field name that begins with a time token (any field that is not
\* 'reflectivity' is rendered as velocity, lines 447-456)
ShortFiles == {<<DateOf(0)>>}

LongFields == {<<1>> \o fld : fld \in Fields}

\* the (file, field) pairs of the calls
CachePairs == (CacheFiles \X Fields) \cup (ShortFiles \X LongFields)

\* the artifacts stored for a pair; the scan named by its date alone holds the
\* sweep of another time
PairValues(f, fld) ==
    IF Len(f) = 2 THEN CacheValues(f, fld) ELSE CacheValues(<<f[1], 2>>, FieldVel)

cacheUnchanged == <<pc, kind, rawCache, scenario, sweepRead, scanVars, imgVars, animVars,
                    frames, fcVars, result, exception>>

\* save_cached_image(radar_file, field, data)
put_cached_image ==
    /\ kind = "cache"
    /\ Len(ioLog) < MaxOps
    /\ \E p \in CachePairs, w \in WriteOutcomes :
         \E data \in PairValues(p[1], p[2]) :
            /\ imgCache' = save_cached_image(imgCache, p[1], p[2], data, w)
            /\ ioLog' = Append(ioLog, <<"put", get_image_cache_key(p[1], p[2]), data, w, p>>)
    /\ UNCHANGED cacheUnchanged

\* get_cached_image(radar_file, field)
get_cached_image_call ==
    /\ kind = "cache"
    /\ Len(ioLog) < MaxOps
    /\ \E p \in CachePairs :
         ioLog' = Append(ioLog, <<"get", get_image_cache_key(p[1], p[2]),
                                  get_cached_image(imgCache, p[1], p[2]), p>>)
    /\ UNCHANGED imgCache
    /\ UNCHANGED cacheUnchanged

\* the image loop of cleanup_old_cache (lines 80-88)
evict_cached_images ==
    /\ kind = "cache"
    /\ Len(ioLog) < MaxOps
    /\ \E kept \in SUBSET StaleImg :
          imgCache' = [k \in DOMAIN imgCache |->
                         IF k \in StaleImg /\ k \notin kept THEN <<>> ELSE imgCache[k]]
    /\ ioLog' = Append(ioLog, <<"evict">>)
    /\ UNCHANGED cacheUnchanged

\* an hour passes: every stored file is now older than the cutoff
hour_passes ==
    /\ kind = "cache"
    /\ Len(ioLog) < MaxOps
    /\ imgCache' = [k \in DOMAIN imgCache |->
                      IF imgCache[k] = <<>> THEN <<>> ELSE <<"stale", imgCache[k][2]>>]
    /\ ioLog' = Append(ioLog, <<"hour">>)
    /\ UNCHANGED cacheUnchanged

InitCache ==
    /\ kind = "cache"
    /\ pc = "idle"
    /\ rawCache = [f \in AllFiles |-> "absent"]
    /\ imgCache = [k \in ImgKeys |-> <<>>]
    /\ count = 0
    /\ days_ago = 0
    /\ recent_scans = <<>>
    /\ scan_i = 0
    /\ downloaded_files = <<>>
    /\ files = <<>>
    /\ gs_ret = "done"
    /\ listLog = <<>>
    /\ dlLog = <<>>
    /\ scenario = "storm"
    /\ sweepRead = [f \in PlainFiles |-> "unknown"]
    /\ field = FieldRefl
    /\ radar_file = None
    /\ img_ret = "done"
    /\ img_result = None
    /\ frame_count = 0
    /\ anim_files = <<>>
    /\ anim_i = 0
    /\ frames = <<>>
    /\ lead_times = 0
    /\ timestep_min = 0
    /\ pysteps = TRUE
    /\ grids = <<>>
    /\ fc_i = 0
    /\ mode = "none"
    /\ V = None
    /\ forecast = <<>>
    /\ result = None
    /\ exception = None
    /\ ioLog = <<>>

NextCache ==
    \/ put_cached_image
    \/ get_cached_image_call
    \/ evict_cached_images
    \/ hour_passes

SpecCache == InitCache /\ [][NextCache]_vars

(***************************************************************************)
(* Properties of get_radar_scans (SpecScans).                              *)
(***************************************************************************)
\* C1: for every count and every combination of cache hits, successful and
\* failed downloads and failed listings, the list returned by get_radar_scans
\* is in non-decreasing order of scan timestamp, oldest first.
C1_ChronologicalOrder ==
    \A i \in 1..(Len(files) - 1) : Timestamp(files[i]) <= Timestamp(files[i + 1])

\* a call that returned scans of both days, after a cache hit, a download and a
\* failed download
C1_Witness ==
    /\ pc = "done"
    /\ Len(files) >= 2
    /\ files[1][1] # files[Len(files)][1]
    /\ \E i \in 1..Len(dlLog) : dlLog[i].how = "failed"
    /\ \E i \in 1..Len(dlLog) : dlLog[i].how = "cached"
    /\ \E i \in 1..Len(dlLog) : dlLog[i].how = "ok"

\* the scans a finished direct call obtained: cache hits and successful downloads
Obtained == {dlLog[i].file : i \in {j \in 1..Len(dlLog) : dlLog[j].how \in {"cached", "ok"}}}

\* C10: a listing or a download that fails inside get_radar_scans is skipped, is
\* not attempted again in the same call and does not end the call: the remaining
\* scans and days are still processed and every obtained scan is returned.
C10_FailureSkipped ==
    pc = "done" =>
        /\ \A i \in 1..Len(dlLog) :
              dlLog[i].how \in {"failed", "raise"} => ~(dlLog[i].returned /\ dlLog[i].more)
        /\ \A i, j \in 1..Len(dlLog) : i # j => dlLog[i].file # dlLog[j].file
        /\ \A i, j \in 1..Len(listLog) : i # j => listLog[i].day # listLog[j].day
        /\ \A i \in 1..Len(listLog) :
              ~listLog[i].ok /\ listLog[i].day + 1 < SearchDays => i < Len(listLog)
        /\ Obtained = Range(files)

(***************************************************************************)
(* Properties of the image cache (SpecCache).                              *)
(***************************************************************************)
\* no eviction and no other store to the key between positions i and j of the history
Undisturbed(i, j, key) ==
    \A m \in (i + 1)..(j - 1) :
        /\ ioLog[m][1] # "evict"
        /\ ~(ioLog[m][1] = "put" /\ ioLog[m][2] = key)

\* C4: a put followed by a get of the same key with no eviction in between returns
\* a value equal to the one put; a second put of equal content at the same key
\* leaves the value observed by a later get unchanged.
C4_PutGet ==
    /\ \A i, j \in 1..Len(ioLog) :
          /\ i < j
          /\ ioLog[i][1] = "put"
          /\ ioLog[j][1] = "get"
          /\ ioLog[j][2] = ioLog[i][2]
          /\ Undisturbed(i, j, ioLog[i][2])
          => ioLog[j][3] = ioLog[i][3]
    /\ \A i, j, l \in 1..Len(ioLog) :
          /\ i < j /\ j < l
          /\ ioLog[i][1] = "put"
          /\ ioLog[j][1] = "put"
          /\ ioLog[l][1] = "get"
          /\ ioLog[j][2] = ioLog[i][2]
          /\ ioLog[l][2] = ioLog[i][2]
          /\ ioLog[j][3] = ioLog[i][3]
          /\ \A m \in (i + 1)..(l - 1) : ioLog[m][1] # "evict"
          /\ Undisturbed(i, j, ioLog[i][2])
          /\ Undisturbed(j, l, ioLog[i][2])
          => ioLog[l][3] = ioLog[i][3]

\* the same with every write having succeeded: what the code does guarantee
C4_PutGetWritten ==
    (\A i \in 1..Len(ioLog) : ioLog[i][1] = "put" => ioLog[i][4] = "ok") => C4_PutGet

(***************************************************************************)
(* Properties of the pipelines (Spec).                                     *)
(***************************************************************************)
\* the current call's history has an entry of the given sort
HasEntry(sort) == \E i \in 1..Len(ioLog) : ioLog[i][1] = sort

\* C2: a forecast request with leadTimes = n returns exactly n frames when it
\* ends without an error, and zero frames with an error when it fails; it never
\* returns another number of frames.
C2_FrameCount ==
    kind = "forecast" /\ pc = "done" =>
        \/ result.error # None /\ result.frames = <<>>
        \/ result.error = None /\ Len(result.frames) = lead_times

\* C3: whatever the parameters and whichever collaborator fails, a pipeline run
\* returns a result value to its caller; no exception leaves it.
C3_NoExceptionPropagates ==
    /\ exception = None
    /\ pc # "raised"
    /\ pc = "done" => result # None

\* C5: when the image cache holds an artifact for the scan and the field, the
\* image request returns the stored artifact, reads no sweep, renders nothing
\* and writes nothing to the cache.
C5_CacheHitSkips ==
    \A i \in 1..Len(ioLog) :
        ioLog[i][1] = "lookup" /\ ioLog[i][2] # None =>
            /\ ~HasEntry("read") /\ ~HasEntry("render") /\ ~HasEntry("write")
            /\ i < Len(ioLog) => ioLog[i + 1] = <<"img_return", ioLog[i][2]>>
            /\ i = Len(ioLog) /\ pc = "done" => /\ result.image = ioLog[i][2].image
                                               /\ result.error = None

\* a single-image request answered from the cache
C5_Witness ==
    /\ kind = "image"
    /\ pc = "done"
    /\ Len(ioLog) = 2
    /\ ioLog[1][1] = "lookup"
    /\ ioLog[1][2] # None
    /\ result = ioLog[1][2]
    /\ result.image # None

\* the mean of the non-missing vectors exists and is below 0.3 in absolute value
\* (vectors in tenths of a cell)
MeanBelowThreshold(v) ==
    LET w == NotNaN(v)
    IN w # <<>> /\ 10 * Abs(SumSeq(w)) < 3 * 10 * Len(w)

\* C6: with a motion field whose means exist, the forecast run selects
\* persistence mode when |mean(dy)| < 0.3 and |mean(dx)| < 0.3, and motion mode
\* when one of them is >= 0.3, the value 0.3 itself included.
C6_FallbackThreshold ==
    mode # "none" /\ V # None /\ NotNaN(V[1]) # <<>> /\ NotNaN(V[2]) # <<>> =>
        (mode = "persistence" <=> MeanBelowThreshold(V[1]) /\ MeanBelowThreshold(V[2]))

\* motion mode selected on the boundary value: mean(dy) = 0.3, mean(dx) = 0
C6_Witness ==
    /\ mode = "motion"
    /\ V = <<Uniform(3), Uniform(0)>>
    /\ pc = "done"
    /\ result.error = None

\* C7: when fewer than 1% of the cells of the grid stack exceed 10, the forecast
\* run ends with the not-enough-precipitation error and zero frames and never
\* invokes the estimator; the estimator is invoked only after the coverage
\* check has passed.
C7_CoverageGate ==
    /\ \A i \in 1..Len(ioLog) :
          ioLog[i][1] = "coverage" /\ 100 * ioLog[i][2] < Len(grids) * NCells =>
              /\ ~HasEntry("estimate")
              /\ pc = "done"
              /\ result = ForecastError(<<"Not enough precipitation to generate forecast">>)
    /\ \A j \in 1..Len(ioLog) :
          ioLog[j][1] = "estimate" =>
              \E i \in 1..(j - 1) :
                  ioLog[i][1] = "coverage" /\ 100 * ioLog[i][2] >= Len(grids) * NCells

\* a forecast run stopped by the coverage gate
C7_Witness ==
    /\ kind = "forecast"
    /\ pc = "done"
    /\ Len(grids) >= 2
    /\ HasEntry("coverage")
    /\ ~HasEntry("estimate")
    /\ result.frames = <<>>

\* C8: a forecast run with fewer than 2 scans, or with fewer than 2 valid grids,
\* ends with an error and zero frames and performs no coverage check, no
\* motion estimation and no rendering.
C8_InsufficientFrames ==
    kind = "forecast" =>
        /\ HasEntry("coverage") \/ HasEntry("estimate") \/ HasEntry("render")
              => Len(files) >= 2 /\ Len(grids) >= 2
        /\ pc = "done" /\ (Len(files) < 2 \/ Len(grids) < 2)
              => result.error # None /\ result.frames = <<>>

\* a forecast run that obtained two scans of which one gave a valid grid
C8_Witness ==
    /\ kind = "forecast"
    /\ pc = "done"
    /\ Len(files) >= 2
    /\ Len(grids) = 1
    /\ result.error # None

\* the artifact of a scan in the weather of the run
ArtifactOf(f) == Artifact(Sweep(scenario, f), ResolveField(Sweep(scenario, f), field), field)

\* the generate_radar_image call in ioLog met no read, field or render failure
ImageCallOk(f) ==
    /\ sweepRead[f] # "bad"
    /\ ResolveField(Sweep(scenario, f), field) # None
    /\ HasEntry("render") => HasEntry("write")

\* C9: with exactly one scan obtained, which reads and renders without error,
\* the single-image request returns that scan's artifact with no error, the
\* animation request returns exactly one frame built from that scan, and the
\* forecast request returns zero frames with an error.
C9_SingleScan ==
    /\ kind = "image" /\ pc = "done" /\ Len(files) = 1 /\ ImageCallOk(files[1])
          => result = ArtifactOf(files[1]) /\ result.error = None
    /\ kind = "anim" /\ pc = "done" /\ Len(anim_files) = 1
          => /\ Len(result) = 1
             /\ img_ret = "anim_loop" => result = <<ArtifactOf(anim_files[1])>>
    /\ kind = "anim" /\ pc = "cleanup" /\ img_ret = "anim_single" /\ Len(anim_files) = 1
          => ~ImageCallOk(anim_files[1])
    /\ kind = "forecast" /\ pc = "done" /\ pysteps /\ Len(files) = 1
          => result = ForecastError(<<"Not enough radar scans for forecasting", 1>>)

\* an animation of several frames requested, one scan obtained, one frame returned
C9_Witness ==
    /\ kind = "anim"
    /\ pc = "done"
    /\ frame_count >= 2
    /\ Len(anim_files) = 1
    /\ result = <<ArtifactOf(anim_files[1])>>

(***************************************************************************)
(* Further properties of get_radar_scans (SpecScans).                      *)
(***************************************************************************)
\* the number of scans obtained among the first n scans processed
ObtainedUpTo(n) ==
    Cardinality({j \in 1..n : dlLog[j].how \in {"cached", "ok"}})

\* the number of scans obtained from the listing of the day
ObtainedOn(d) ==
    Cardinality({j \in 1..Len(dlLog) :
                    dlLog[j].how \in {"cached", "ok"} /\ dlLog[j].file[1] = DateOf(d)})

\* the day was listed (with or without success) by the call
Listed(d) == \E i \in 1..Len(listLog) : listLog[i].day = d

\* C11: get_radar_scans lists the previous UTC day if and only if fewer than
\* count scans were obtained from today's listing; it lists no more than these
\* two days; it returns as soon as count scans have been obtained.
C11_PreviousDayListing ==
    pc = "done" =>
        /\ Listed(1) <=> ObtainedOn(0) < count
        /\ \A i \in 1..Len(listLog) : listLog[i].day \in {0, 1}
        /\ Len(listLog) <= 2
        /\ \A n \in 0..(Len(dlLog) - 1) : ObtainedUpTo(n) < count

\* C12: no scan whose key carries the '_MDM' marker is ever downloaded by or
\* returned from get_radar_scans, whatever the listings and the count.
C12_NoMdmScan ==
    /\ \A i \in 1..Len(dlLog) : dlLog[i].file \notin MdmFiles
    /\ \A i \in 1..Len(files) : files[i] \notin MdmFiles
    /\ \A i \in 1..Len(downloaded_files) : downloaded_files[i] \notin MdmFiles
    /\ \A i \in 1..Len(recent_scans) : recent_scans[i] \notin MdmFiles
    /\ \A f \in MdmFiles : rawCache[f] = "absent"

\* a call that met marked keys in a listing, downloaded a scan and returned scans
C12_Witness ==
    /\ pc = "done"
    /\ \E i \in 1..Len(listLog) : listLog[i].mdm /\ listLog[i].valid # <<>>
    /\ \E i \in 1..Len(dlLog) : dlLog[i].how = "ok"
    /\ files # <<>>

(***************************************************************************)
(* SpecPair: two requests /api/radar/{station}/cached for the same station *)
(* and field that are pending together.  The route handlers are coroutines *)
(* without an await (lines 1202-1263), so the event loop of the one server *)
(* process (uvicorn.run, line 1268) runs the first to its end before the   *)
(* second starts; frames keeps the outcome of the first.                   *)
(***************************************************************************)
\* the second handler starts when the first has returned
next_request ==
    /\ kind = "pair"
    /\ pc = "done"
    /\ frames = <<>>
    /\ frames' = <<[result |-> result, log |-> ioLog]>>
    /\ pc' = "cached_start"
    /\ result' = None
    /\ ioLog' = <<>>
    /\ radar_file' = None
    /\ img_result' = None
    /\ UNCHANGED <<kind, rawCache, imgCache, scenario, sweepRead, scanVars, field, img_ret,
                   animVars, fcVars, exception>>

InitPair ==
    /\ kind = "pair"
    /\ pc = "cached_start"
    /\ field \in Fields
    /\ scenario \in Scenarios
    /\ rawCache \in PipeRawInits
    /\ imgCache \in PipeImgInits(scenario, field)
    /\ sweepRead = [f \in PlainFiles |-> "unknown"]
    /\ count = 0
    /\ days_ago = 0
    /\ recent_scans = <<>>
    /\ scan_i = 0
    /\ downloaded_files = <<>>
    /\ files = <<>>
    /\ gs_ret = "done"
    /\ listLog = <<>>
    /\ dlLog = <<>>
    /\ radar_file = None
    /\ img_ret = "done"
    /\ img_result = None
    /\ frame_count = 0
    /\ anim_files = <<>>
    /\ anim_i = 0
    /\ frames = <<>>
    /\ lead_times = 0
    /\ timestep_min = 0
    /\ pysteps = TRUE
    /\ grids = <<>>
    /\ fc_i = 0
    /\ mode = "none"
    /\ V = None
    /\ forecast = <<>>
    /\ result = None
    /\ exception = None
    /\ ioLog = <<>>

NextPair ==
    \/ get_cached_radar
    \/ generate_radar_image_lookup
    \/ generate_radar_image_render
    \/ get_cached_radar_return
    \/ next_request

SpecPair == InitPair /\ [][NextPair]_vars

(***************************************************************************)
(* Properties of two pending requests (SpecPair).                          *)
(***************************************************************************)
\* the history of a request shows that it read the scan to generate the image
Populated(log) == \E i \in 1..Len(log) : log[i][1] = "read"

\* the history of a request shows that it found no stored artifact
Uncached(log) == \E i \in 1..Len(log) : log[i][1] = "lookup" /\ log[i][2] = None

\* C13: of two or more requests pending together for the same uncached scan
\* and field, at most one reads, resamples and renders the scan; the others
\* share that computation, and all return the same artifact.
C13_SingleFlight ==
    kind = "pair" /\ pc = "done" /\ Len(frames) = 1 /\ Uncached(frames[1].log) =>
        /\ ~(Populated(frames[1].log) /\ Populated(ioLog))
        /\ result = frames[1].result

\* the same when the first request met no failure: the stored artifact is shared
C13_SharedWhenStored ==
    /\ kind = "pair" /\ pc = "done" /\ Len(frames) = 1 /\ Uncached(frames[1].log)
    /\ \E i \in 1..Len(frames[1].log) :
          frames[1].log[i][1] = "write" /\ frames[1].log[i][3] = "ok"
    => /\ ~Populated(ioLog)
       /\ result = frames[1].result

\* the number of artifacts the image cache holds
StoredArtifacts == Cardinality({k \in ImgKeys : imgCache[k] # <<>>})

\* the lead steps handed to the renderer by the current run
RenderedSteps == {ioLog[j][2] : j \in {n \in 1..Len(ioLog) : ioLog[n][1] = "render"}}

\* C15: a forecast run that ends without an error has handed every lead-time
\* grid to the renderer and has stored the artifacts, so that the image cache
\* holds one entry per returned forecast frame.
C15_ForecastStored ==
    kind = "forecast" /\ pc = "done" /\ result.error = None =>
        /\ RenderedSteps = 1..lead_times
        /\ StoredArtifacts >= Len(result.frames)

\* the first half alone: every lead-time grid is handed to the renderer
C15_EveryGridRendered ==
    kind = "forecast" /\ pc = "done" /\ result.error = None =>
        RenderedSteps = 1..lead_times

\* the run has read a sweep in which no alias of the requested field is present
FieldAbsentRead ==
    \E f \in PlainFiles :
        sweepRead[f] = "ok" /\ ResolveField(Sweep(scenario, f), field) = None

\* an outcome that reports the missing field with the list of the fields present
FieldNotFound(err) ==
    /\ err # None
    /\ err[1] = "Field not found"
    /\ Len(err) = 2
    /\ \E f \in PlainFiles : err[2] = DOMAIN Sweep(scenario, f).fields

\* C16: whenever the requested field is absent from a sweep the run has read,
\* the outcome the run reports is a field-not-found error that lists the fields
\* present, on the single-image, the animation and the forecast path alike.
C16_FieldNotFound ==
    pc = "done" /\ FieldAbsentRead =>
        CASE kind \in {"image", "cached"} -> FieldNotFound(result.error)
          [] kind = "anim" -> \E i \in 1..Len(result) : FieldNotFound(result[i].error)
          [] kind = "forecast" -> FieldNotFound(result.error)
          [] OTHER -> TRUE

\* the single-image path alone
C16_ImagePath ==
    pc = "done" /\ FieldAbsentRead /\ kind \in {"image", "cached"} =>
        FieldNotFound(result.error)

\* the animation path alone
C16_AnimationPath ==
    pc = "done" /\ FieldAbsentRead /\ kind = "anim" =>
        \E i \in 1..Len(result) : FieldNotFound(result[i].error)

\* the motion estimator has raised in the current forecast run (which had passed
\* the coverage gate): the estimation step was taken and left V unset
EstimatorRaised == kind = "forecast" /\ mode # "none" /\ V = None

\* the image of the last observed (filled) grid, unchanged
LastFrameImage == Render(MaskFrame(LastFrame, field), field)

\* C17: when the motion estimator raises in a forecast run that passed the
\* coverage gate, the run does not fail: it is in persistence mode, it returns
\* lead_times frames and no error, and the grid of every returned frame is the
\* last observed (filled) grid unchanged.
C17_EstimationFailure ==
    EstimatorRaised =>
        /\ pc # "raised" /\ exception = None
        /\ mode = "persistence"
        /\ pc = "done" =>
             /\ result.error = None
             /\ Len(result.frames) = lead_times
             /\ \A i \in 1..Len(result.frames) : result.frames[i].image = LastFrameImage

\* what the code does keep: persistence mode, no error outcome, and every frame
\* that is returned shows the last observed grid
C17_PersistenceFallback ==
    EstimatorRaised =>
        /\ mode = "persistence"
        /\ pc = "fc_render" => forecast = Persistence(LastFrame, lead_times)
        /\ pc = "done" =>
             /\ result.error = None
             /\ Len(result.frames) <= lead_times
             /\ \A i \in 1..Len(result.frames) : result.frames[i].image = LastFrameImage

\* the lead step of the k-th returned frame: the k-th step whose rendering did
\* not fail; the steps rendered so far are 1..fc_i, or 1..fc_i-1 while step fc_i
\* is still to be rendered
LeadsOf(fs) == [k \in 1..Len(fs) |-> fs[k].lead_time_min]

\* C18: the frame produced for lead step i (1-based) carries lead_time_min =
\* i * timestep_min and the timestamp of the last observed scan plus that offset
\* (the current instant is the base when the scan time does not parse); over the
\* returned sequence the lead times increase strictly when timestep_min > 0.
C18_LeadTimeStamp ==
    kind = "forecast" /\ pc \in {"fc_render", "done"} /\ mode # "none" =>
        /\ \A k \in 1..Len(frames) :
              \E i \in k..lead_times :
                  /\ frames[k].lead_time_min = i * timestep_min
                  /\ frames[k].timestamp =
                        <<(IF grids[Len(grids)][2] = UnknownTime THEN Now
                           ELSE grids[Len(grids)][2]) + i * timestep_min>>
        /\ timestep_min > 0 =>
              \A k \in 1..(Len(frames) - 1) :
                  frames[k].lead_time_min < frames[k + 1].lead_time_min

\* step by step: rendering lead step fc_i appends a frame stamped with
\* fc_i * timestep_min
C18_StepStamp ==
    [][generate_forecast_render /\ Len(frames') > Len(frames) =>
          frames'[Len(frames')].lead_time_min = fc_i * timestep_min]_vars

C18_Witness ==
    /\ kind = "forecast" /\ pc = "done" /\ result.error = None
    /\ timestep_min > 0
    /\ Len(result.frames) = 2
    /\ grids[Len(grids)][2] # UnknownTime
    /\ result.frames[2].lead_time_min = 2 * timestep_min

C18_WitnessUnparsed ==
    /\ kind = "forecast" /\ pc = "done" /\ result.error = None
    /\ grids[Len(grids)][2] = UnknownTime
    /\ timestep_min > 0
    /\ Len(result.frames) = 1
    /\ lead_times = 2
    /\ result.frames[1].lead_time_min = 2 * timestep_min
    /\ result.frames[1].timestamp = <<Now + 2 * timestep_min>>

\* the samples of the requested field in the sweep of file f
SourceData(f) == ResolveField(Sweep(scenario, f), field)

\* the samples of file f at or above the noise floor, the others missing
AboveFloor(f) ==
    [k \in DOMAIN SourceData(f) |->
        IF SourceData(f)[k] # NaN /\ ~BelowNoise(SourceData(f)[k], field)
        THEN SourceData(f)[k] ELSE NaN]

\* the files whose grid has been extracted in the current forecast run
Extracted == {ioLog[j][2] : j \in {n \in 1..Len(ioLog) : ioLog[n][1] = "extract"}}

\* no cell of the data is a value below the noise floor
NoNoise(data) == \A k \in DOMAIN data : data[k] = NaN \/ ~BelowNoise(data[k], field)

\* C19: no sample below the noise floor (reflectivity < 5, |velocity| < 1) is
\* exposed as data: every grid that enters the motion estimation is the
\* interpolation of the samples at or above the floor only, and every cell of a
\* rendered frame or image below the floor is masked as missing.
C19_NoiseFloor ==
    /\ kind = "forecast" =>
          /\ \A i \in 1..Len(grids) :
                \E f \in Extracted : grids[i][1] = GridData(AboveFloor(f))
          /\ \A k \in 1..Len(frames) : NoNoise(frames[k].image[3])
    /\ kind \in {"image", "cached"} /\ pc = "done" /\ result.image # None =>
          NoNoise(result.image[3])

C19_Witness ==
    /\ kind = "forecast" /\ pc = "done" /\ result.error = None
    /\ mode = "motion"
    /\ Len(frames) >= 1
    /\ \E f \in Extracted : \E k \in Nodes :
          SourceData(f)[k] # NaN /\ BelowNoise(SourceData(f)[k], field)
    /\ \E k \in Nodes :
          forecast[1][k] # NaN /\ BelowNoise(forecast[1][k], field)
                               /\ frames[1].image[3][k] = NaN

\* the scans the current call took from the cache directory
CacheHits == {dlLog[i].file : i \in {n \in 1..Len(dlLog) : dlLog[n].how = "cached"}}

\* C20: a call of get_radar_scans runs the sweep to completion before its first
\* listing and before it tests a file for a cache hit; the sweep removes every
\* raw-scan and artifact file older than the cutoff and leaves the newer ones;
\* hence no file older than the cutoff at sweep time is returned as a cache hit.
C20_SweepFirst ==
    kind = "scans" =>
        /\ pc = "cleanup" => listLog = <<>> /\ dlLog = <<>>
        /\ pc # "cleanup" => StaleRaw = {} /\ StaleImg = {}
        /\ \A f \in CacheHits : rawCache[f] # "stale"

\* the order alone: nothing is listed or tested before the sweep has run
C20_SweepOrder ==
    kind = "scans" /\ pc = "cleanup" => listLog = <<>> /\ dlLog = <<>>

\* the sweep touches no file newer than the cutoff, and what it removes was older
C20_NewerUnchanged ==
    [][cleanup_old_cache =>
          /\ \A f \in DOMAIN rawCache :
                /\ rawCache[f] # "stale" => rawCache'[f] = rawCache[f]
                /\ rawCache'[f] \in {rawCache[f], "absent"}
          /\ \A k \in DOMAIN imgCache :
                /\ k \notin StaleImg => imgCache'[k] = imgCache[k]
                /\ imgCache'[k] \in {imgCache[k], <<>>}]_vars

\* the value that the last observed filled grid holds at row r, column c, and
\* the fill value 0 outside the grid
CellOrFill(r, c) ==
    IF r >= 0 /\ r < GridSize /\ c >= 0 /\ c < GridSize
    THEN LastFrame[r * GridSize + c + 1] ELSE 0

\* the whole-cell offsets that a shift of t tenths of a cell lies between
Offsets(t) == IF t % 10 = 0 THEN {t \div 10} ELSE {t \div 10, t \div 10 + 1}

\* the values cell k can take from a translation by (ty, tx) tenths of a cell
TranslatedValues(k, ty, tx) ==
    {CellOrFill(RowOf(k) - sy, ColOf(k) - sx) : sy \in Offsets(ty), sx \in Offsets(tx)}

\* C21: in motion mode the grid of lead step i (1-based) is the last observed
\* filled grid translated as a whole by (i * mean(dy), i * mean(dx)) cells:
\* content shifted outside is dropped, uncovered cells hold 0, nothing wraps
\* around to the opposite edge.
C21_WholeGridShift ==
    kind = "forecast" /\ mode = "motion" /\ pc \in {"fc_render", "done"} =>
        /\ ShiftDefined(V)
        /\ \A i \in 1..lead_times : \A k \in Nodes :
              LET vals == TranslatedValues(k, ShiftTenths(V[1], i), ShiftTenths(V[2], i))
              IN /\ \E v \in vals : forecast[i][k] >= v
                 /\ \E v \in vals : forecast[i][k] <= v

\* the same for the motion fields whose two mean shifts exist
C21_ShiftWhenDefined ==
    kind = "forecast" /\ mode = "motion" /\ pc \in {"fc_render", "done"}
                      /\ ShiftDefined(V) =>
        \A i \in 1..lead_times : \A k \in Nodes :
            LET vals == TranslatedValues(k, ShiftTenths(V[1], i), ShiftTenths(V[2], i))
            IN /\ \E v \in vals : forecast[i][k] >= v
               /\ \E v \in vals : forecast[i][k] <= v

\* C22: get_radar_scans(station, count) never returns more than count scan
\* paths, for every count >= 0 (count = 0 included) and every listing.
C22_AtMostCount ==
    kind = "scans" /\ pc = "done" /\ count >= 0 => Len(files) <= count

\* the same for the counts from 1 on
C22_AtMostCountPositive ==
    kind = "scans" /\ pc = "done" /\ count >= 1 => Len(files) <= count

\* every listing and every download of the current call succeeded
AllSucceeded ==
    /\ \A i \in 1..Len(listLog) : listLog[i].ok
    /\ \A i \in 1..Len(dlLog) : dlLog[i].how \in {"cached", "ok"}

\* the non-degraded scans the call has seen listed
ListedScans == UNION {Range(listLog[i].valid) : i \in 1..Len(listLog)}

\* no listed scan newer than a returned scan is missing from the result
MostRecent ==
    \A s \in ListedScans : \A j \in 1..Len(files) :
        FileLess(files[j], s) => s \in Range(files)

\* the property for every count, 0 and below included
C23_MostRecentAnyCount ==
    kind = "scans" /\ pc = "done" /\ AllSucceeded => MostRecent

\* the same for a result taken from a single listing
C23_MostRecentOneDay ==
    kind = "scans" /\ pc = "done" /\ AllSucceeded /\ count >= 1
                   /\ Len(listLog) = 1 => MostRecent

\* C23: when every listing and download succeeds, the scans returned by
\* get_radar_scans(station, count), count >= 1, are the most recent obtainable
\* ones of the two searched days: no listed scan newer than a returned scan is
\* missing from the result, also when the result combines today and the
\* previous day.
C23_MostRecent ==
    kind = "scans" /\ pc = "done" /\ AllSucceeded /\ count >= 1 => MostRecent

\* the pair of the store that the step has just made, None for another step
PutPair ==
    IF kind = "cache" /\ Len(ioLog') = Len(ioLog) + 1 /\ ioLog'[Len(ioLog')][1] = "put"
    THEN ioLog'[Len(ioLog')][5] ELSE None

\* the step leaves the result of a lookup of pair p as it was
LookupUnchanged(p) ==
    get_cached_image(imgCache', p[1], p[2]) = get_cached_image(imgCache, p[1], p[2])

\* C24: the cache never serves an artifact stored for one (scan basename,
\* field) pair to a request for another pair: a put for (b1, f1) does not change
\* the result of get for a distinct pair (b2, f2), also when basename + '_' +
\* field is the same text for both.
C24_PairIsolation ==
    [][PutPair # None =>
          \A p \in CachePairs : p # PutPair => LookupUnchanged(p)]_vars

\* the same for the pairs whose key texts differ
C24_KeyIsolation ==
    [][PutPair # None =>
          \A p \in CachePairs :
              get_image_cache_key(p[1], p[2]) # get_image_cache_key(PutPair[1], PutPair[2])
                  => LookupUnchanged(p)]_vars

\* the cache file of key k is absent, unreadable (a lookup misses it and the
\* scan is generated again), or holds a successful artifact
SuccessfulEntry(k) ==
    \/ imgCache[k] = <<>>
    \/ ~JsonValid(imgCache[k][2])
    \/ LET a == JsonLoads(imgCache[k][2])
       IN a.image # None /\ a.bounds # None /\ a.error = None

\* the request whose history is log read the scan and ended with the error err
FailedGeneration(log, err) == err # None /\ Populated(log)

\* C25: in every reachable state every entry the pipeline has written to the
\* image cache is a successful artifact (image and bounds present, no error):
\* an error outcome is never stored, so a later request for the same scan and
\* field attempts the generation again.
C25_OnlySuccessStored ==
    /\ \A k \in ImgKeys : SuccessfulEntry(k)
    /\ kind = "pair" /\ pc = "done" /\ Len(frames) = 1
          /\ FailedGeneration(frames[1].log, frames[1].result.error) =>
             Uncached(ioLog) /\ Populated(ioLog)

C25_Witness ==
    /\ kind = "pair" /\ pc = "done" /\ Len(frames) = 1
    /\ FailedGeneration(frames[1].log, frames[1].result.error)
    /\ frames[1].result.error[1] = "Field not found"
    /\ Populated(ioLog)
    /\ \A k \in ImgKeys : imgCache[k] = <<>>

C25_WitnessStored ==
    /\ kind = "pair" /\ pc = "done"
    /\ \E i \in 1..Len(ioLog) : ioLog[i][1] = "write" /\ ioLog[i][3] = "ok"
    /\ \E k \in ImgKeys : imgCache[k] # <<>> /\ JsonValid(imgCache[k][2])

\* the component has a non-missing vector
HasVector(v) == NotNaN(v) # <<>>

\* |mean(v)| >= 0.3 over the non-missing vectors (vectors in tenths of a cell)
MeanAtLeastThreshold(v) ==
    HasVector(v) /\ Abs(SumSeq(NotNaN(v))) >= MotionThreshold * Len(NotNaN(v))

\* C26: a forecast run enters motion mode only with a well-defined shift: the
\* estimator returned a field whose two components each have a non-missing
\* vector and |mean(dy)| >= 0.3 or |mean(dx)| >= 0.3; a returned field with no
\* non-missing vector in dy or in dx leads to persistence mode.
C26_MotionWellDefined ==
    kind = "forecast" /\ mode # "none" =>
        /\ mode = "motion" =>
              /\ V # None
              /\ HasVector(V[1]) /\ HasVector(V[2])
              /\ MeanAtLeastThreshold(V[1]) \/ MeanAtLeastThreshold(V[2])
        /\ V # None /\ (~HasVector(V[1]) \/ ~HasVector(V[2])) => mode = "persistence"

\* the same for the fields whose dy component has a non-missing vector
C26_MotionWhenDyPresent ==
    kind = "forecast" /\ mode # "none" /\ V # None /\ HasVector(V[1]) =>
        /\ mode = "motion" =>
              /\ HasVector(V[2])
              /\ MeanAtLeastThreshold(V[1]) \/ MeanAtLeastThreshold(V[2])
        /\ ~HasVector(V[2]) => mode = "persistence"

====
